---- MODULE Spec2Model ----
(***************************************************************************)
(* IDMC CogniAssistant: the chat session controller (ChatInterface) and    *)
(* the server flows it invokes (standard, contextual, comprehensive and    *)
(* attachment analysis).                                                   *)
(*                                                                         *)
(* Text is modelled as a sequence of tokens (strings): a token stands for  *)
(* a run of characters of the source string, chosen so that every pattern  *)
(* the code searches for (includes, startsWith, split, trim) is a whole    *)
(* number of tokens.  The empty sequence is the empty string.              *)
(*                                                                         *)
(* React state updates made inside one handler (or one continuation after  *)
(* an await) are batched: each handler is one atomic step and the next     *)
(* handler sees the state it left.                                         *)
(***************************************************************************)
EXTENDS Integers, Sequences, FiniteSets, TLC

VARIABLES
    messages,           \* useState<MessageType[]>          chat-interface.tsx:36
    input,              \* useState("")                     chat-interface.tsx:42
    isLoading,          \* useState(false)                  chat-interface.tsx:43
    activeMode,         \* useState("comprehensive")        chat-interface.tsx:44
    pendingAttachment,  \* useState<Attachment | null>      chat-interface.tsx:45
    readers,            \* files being read: FileReaders whose onloadend has not fired
    inflight,           \* handleSubmit continuations suspended at their await
    flows,              \* server side: the flow invocations and where each stands
    orchCalls,          \* history: orchestrator invocations, in order
    modelCalls,         \* history: prompt (model) invocations, in order
    rejected            \* history: the submits that returned at line 99

vars == <<messages, input, isLoading, activeMode, pendingAttachment, readers,
          inflight, flows, orchCalls, modelCalls, rejected>>

(***************************************************************************)
(* Bounds of the model.                                                    *)
(***************************************************************************)
MaxSubmits == 2
MaxRejected == 1
MaxReaders == 1

(***************************************************************************)
(* Values.                                                                 *)
(***************************************************************************)
\* null / undefined of JavaScript, one per kind of value so that values stay
\* comparable: Null for objects, Undefined for strings and arrays (token
\* sequences), NoMode for the optional mode label.
Null == [null |-> TRUE]
Undefined == <<"<undefined>">>
NoMode == "<undefined>"

\* String.prototype.trim on a token sequence: whitespace tokens removed at both ends.
Whitespace == {" ", "\n"}

RECURSIVE TrimStart(_)
TrimStart(s) ==
    IF s # <<>> /\ Head(s) \in Whitespace THEN TrimStart(Tail(s)) ELSE s

RECURSIVE TrimEnd(_)
TrimEnd(s) ==
    IF s # <<>> /\ s[Len(s)] \in Whitespace
    THEN TrimEnd(SubSeq(s, 1, Len(s) - 1))
    ELSE s

Trim(s) == TrimEnd(TrimStart(s))

\* String.prototype.includes / startsWith on token sequences.
Includes(s, pat) ==
    \E i \in 0..(Len(s) - Len(pat)) : SubSeq(s, i + 1, i + Len(pat)) = pat

StartsWith(s, pat) ==
    Len(pat) <= Len(s) /\ SubSeq(s, 1, Len(pat)) = pat

\* String.prototype.split(sep) for a one-token separator: the segments between
\* occurrences of sep, in order (always at least one segment).
RECURSIVE Split(_, _)
Split(s, sep) ==
    IF \A i \in 1..Len(s) : s[i] # sep
    THEN <<s>>
    ELSE LET k == CHOOSE i \in 1..Len(s) :
                      s[i] = sep /\ \A j \in 1..(i - 1) : s[j] # sep
         IN <<SubSeq(s, 1, k - 1)>> \o Split(SubSeq(s, k + 1, Len(s)), sep)

\* JavaScript array indexing, zero based: undefined past the end.
At(arr, i) == IF i + 1 <= Len(arr) THEN arr[i + 1] ELSE Undefined

\* JavaScript truthiness of a string-or-undefined value.
Truthy(v) == v # Undefined /\ v # <<>>

(***************************************************************************)
(* MIME types the file input accepts (chat-interface.tsx:331), tokenised.  *)
(***************************************************************************)
MimePng == <<"image/", "png">>
MimePdf == <<"application/", "pdf">>
MimeTxt == <<"text/", "plain">>
MimeCsv == <<"text/", "csv">>
MimeDocx == <<"application/", "vnd.openxmlformats-", "officedocument", ".",
              "word", "processingml", ".document">>
MimeXlsx == <<"application/", "vnd.openxmlformats-", "officedocument", ".",
              "spreadsheet", "ml", ".sheet">>
MimeXls == <<"application/", "vnd.", "ms", "-", "excel">>
MimeDoc == <<"application/", "ms", "word">>
MimePptx == <<"application/", "vnd.openxmlformats-", "officedocument", ".",
              "presentationml", ".presentation">>
MimeNone == <<>>

MimeTypes == {MimePng, MimePdf, MimeTxt, MimeCsv, MimeDocx, MimeXlsx, MimeXls,
              MimeDoc, MimePptx, MimeNone}

(***************************************************************************)
(* Data URIs as FileReader.readAsDataURL produces them:                    *)
(* "data:<type>;base64,<data>".  The data segment is a sequence of base64  *)
(* characters.  An empty file reads as "data:" (no comma) or with nothing  *)
(* after the comma, depending on the browser.                              *)
(***************************************************************************)
DataUriOf(type, data) == <<"data:">> \o type \o <<";base64", ",">> \o data
DataUriNoComma == <<"data:">>

\* base64 of "Hi" and of "a,b\n"
PayloadHi == <<"S", "G", "k", "=">>
PayloadCsv == <<"Y", "S", "x", "i", "C", "g", "=", "=">>
\* base64 of the two bytes C3 A9 (e with acute accent) and of the lone byte FF,
\* which is no UTF-8
PayloadEAcute == <<"w", "6", "k", "=">>
PayloadBadByte == <<"/", "w", "=", "=">>

(***************************************************************************)
(* The files the user can pick in the browser session.                     *)
(***************************************************************************)
MaxFileSize == 10 * 1024 * 1024

\* a picture of exactly the largest size the size check lets through
FileDiagram == [name |-> "diagram.png", type |-> MimePng, size |-> MaxFileSize,
                dataUri |-> DataUriOf(MimePng, PayloadHi)]
\* an empty text file, read as "data:"
FileEmptyTxt == [name |-> "empty.txt", type |-> MimeTxt, size |-> 0,
                 dataUri |-> DataUriNoComma]
\* one byte over the limit
FileHugePdf == [name |-> "huge.pdf", type |-> MimePdf, size |-> MaxFileSize + 1,
                dataUri |-> DataUriOf(MimePdf, PayloadHi)]

Files == {FileDiagram, FileEmptyTxt, FileHugePdf}

\* What the user can have in the text box.
TypedTexts == {<<>>, <<" ">>, <<" ", "q", " ">>}

Modes == {"standard", "contextual", "comprehensive"}

(***************************************************************************)
(* Initial state of the component.                                         *)
(***************************************************************************)
Greeting == <<"Hello! I am your IDMC CogniAssistant. ... How can I assist you today?">>

\* faulty variant: the new message replaces the transcript's last one
ReplaceLastMessage(prev, message) ==
    SubSeq(prev, 1, Len(prev) - 1) \o <<message>>

\* setMessages((prev) => [...prev, message])
AppendMessage(prev, message) == Append(prev, message)

Message(role, content, sources, mode, attachment) ==
    [role |-> role, content |-> content, sources |-> sources, mode |-> mode,
     attachment |-> attachment]

\* faulty variant: the transcript starts empty
NoGreeting == <<>>

InitialMessages == <<Message("ai", Greeting, Undefined, NoMode, Null)>>

Init ==
    /\ messages = InitialMessages
    /\ input = <<>>
    /\ isLoading = FALSE
    /\ activeMode = "comprehensive"
    /\ pendingAttachment = Null
    /\ readers = <<>>
    /\ inflight = {}
    /\ flows = {}
    /\ orchCalls = <<>>
    /\ modelCalls = <<>>
    /\ rejected = <<>>

(***************************************************************************)
(* Text box, mode buttons, file input.                                     *)
(***************************************************************************)
\* <Textarea onChange={(e) => setInput(e.target.value)}>
SetInput(text) ==
    /\ input' = text
    /\ UNCHANGED <<messages, isLoading, activeMode, pendingAttachment, readers,
                   inflight, flows, orchCalls, modelCalls, rejected>>

\* faulty variant: the mode buttons are never disabled
ModeButtonNeverDisabled == FALSE

\* disabled={!!pendingAttachment} of the three mode buttons
ModeButtonDisabled == pendingAttachment # Null

\* onClick={() => setActiveMode(mode)}; a disabled button dispatches no click
SetActiveMode(mode) ==
    /\ ~ModeButtonDisabled
    /\ activeMode' = mode
    /\ UNCHANGED <<messages, input, isLoading, pendingAttachment, readers,
                   inflight, flows, orchCalls, modelCalls, rejected>>

\* faulty variant: the limit is off by one byte
FileTooLargeOffByOne(file) == file.size > MaxFileSize + 1

FileTooLarge(file) == file.size > MaxFileSize

\* handleFileChange: the size check, then reader.readAsDataURL(file)
handleFileChange(file) ==
    /\ Len(readers) < MaxReaders
    /\ IF FileTooLarge(file)
       THEN UNCHANGED readers
       ELSE readers' = Append(readers, file)
    /\ UNCHANGED <<messages, input, isLoading, activeMode, pendingAttachment,
                   inflight, flows, orchCalls, modelCalls, rejected>>

\* reader.onloadend
onloadend(i) ==
    /\ i \in 1..Len(readers)
    /\ readers' = SubSeq(readers, 1, i - 1) \o SubSeq(readers, i + 1, Len(readers))
    /\ pendingAttachment' = [file |-> readers[i], dataUri |-> readers[i].dataUri,
                             type |-> readers[i].type]
    /\ UNCHANGED <<messages, input, isLoading, activeMode, inflight, flows,
                   orchCalls, modelCalls, rejected>>

removeAttachment ==
    /\ pendingAttachment # Null
    /\ pendingAttachment' = Null
    /\ UNCHANGED <<messages, input, isLoading, activeMode, readers, inflight,
                   flows, orchCalls, modelCalls, rejected>>

(***************************************************************************)
(* The model service: what one prompt invocation can come back with.       *)
(***************************************************************************)
\* the sentence answerQuestionPrompt tells the model to state when the context
\* does not hold the answer
RefusalAnswer ==
    <<"I don't have enough information from the provided documentation to answer this question.">>

ModelAnswers == {<<>>, <<"model answer">>, RefusalAnswer}
ModelFaults == {"network", "schema"}

ModelOutcomes ==
    {[ok |-> TRUE, answer |-> a, fault |-> ""] : a \in ModelAnswers}
        \cup {[ok |-> FALSE, answer |-> <<>>, fault |-> f] : f \in ModelFaults}

(***************************************************************************)
(* A flow invocation on the server.  pc is the step it is about to take;   *)
(* "resolved" and "rejected" are the settled promise.                      *)
(***************************************************************************)
Flow(id, orch, in, pc, local, result, fault) ==
    [id |-> id, orch |-> orch, input |-> in, pc |-> pc, local |-> local,
     result |-> result, fault |-> fault]

NoLocal == [none |-> TRUE]
NoResult == [answer |-> <<>>, sourceLinks |-> Undefined]

FirstStep(orch) ==
    CASE orch = "standard" -> "prompt"
      [] orch = "contextual" -> "tool"
      [] orch = "comprehensive" -> "overview"
      [] orch = "attachment" -> "extract"

StartFlow(id, orch, in) == Flow(id, orch, in, FirstStep(orch), NoLocal, NoResult, "")

Resolve(f, result) == Flow(f.id, f.orch, f.input, "resolved", f.local, result, "")
\* faulty variant: the faulted step is left to be taken again
RetrySameStep(f, fault) == f

Reject(f, fault) == Flow(f.id, f.orch, f.input, "rejected", f.local, NoResult, fault)
Goto(f, pc, local) == Flow(f.id, f.orch, f.input, pc, local, NoResult, "")

Settled(f) == f.pc \in {"resolved", "rejected"}

ModelCall(f, prompt, promptInput) ==
    [flow |-> f.id, prompt |-> prompt, input |-> promptInput]

(***************************************************************************)
(* handleSubmit, up to its await.                                          *)
(***************************************************************************)
\* faulty variants of the guard: the loading flag forgotten; the trim forgotten
SubmitReturnsEarlyNoLoading ==
    Trim(input) = <<>> /\ pendingAttachment = Null

SubmitReturnsEarlyNoTrim ==
    (input = <<>> /\ pendingAttachment = Null) \/ isLoading

\* if ((!input.trim() && !pendingAttachment) || isLoading) return;
SubmitReturnsEarly ==
    (Trim(input) = <<>> /\ pendingAttachment = Null) \/ isLoading

\* disabled={(!input.trim() && !pendingAttachment) || isLoading} of the send button
SendDisabled ==
    (Trim(input) = <<>> /\ pendingAttachment = Null) \/ isLoading

DefaultQuestion == <<"Analyze this file and explain its relevance to IDMC.">>

\* faulty variant: the mode is looked at before the attachment
OrchestratorForModeFirst(currentAttachment, mode) ==
    IF mode = "comprehensive" THEN "comprehensive"
    ELSE IF mode = "contextual" THEN "contextual"
    ELSE IF currentAttachment # Null THEN "attachment"
    ELSE "standard"

\* the if / else-if chain that picks the server action
OrchestratorFor(currentAttachment, mode) ==
    IF currentAttachment # Null THEN "attachment"
    ELSE IF mode = "comprehensive" THEN "comprehensive"
    ELSE IF mode = "contextual" THEN "contextual"
    ELSE "standard"

OrchestratorInput(currentAttachment, userMessage) ==
    IF currentAttachment # Null
    THEN [question |-> IF userMessage # <<>> THEN userMessage ELSE DefaultQuestion,
          attachmentDataUri |-> currentAttachment.dataUri,
          attachmentType |-> currentAttachment.type]
    ELSE [question |-> userMessage,
          attachmentDataUri |-> Undefined,
          attachmentType |-> Undefined]

UserMessageOf(userMessage, currentAttachment) ==
    Message("user",
            IF userMessage # <<>> THEN userMessage
            ELSE IF currentAttachment # Null
                 THEN <<"Analyzing ", currentAttachment.file.name, "...">>
                 ELSE <<>>,
            Undefined,
            NoMode,
            IF currentAttachment # Null
            THEN [url |-> currentAttachment.dataUri,
                  type |-> currentAttachment.type,
                  name |-> currentAttachment.file.name]
            ELSE Null)

\* faulty variant: the staged attachment is not cleared
PendingKeptAfterSubmit == pendingAttachment

\* setInput(""); setPendingAttachment(null);
InputAfterSubmit == <<>>
PendingAfterSubmit == Null

handleSubmit ==
    IF SubmitReturnsEarly
    THEN /\ Len(rejected) < MaxRejected
         /\ rejected' = Append(rejected, [loading |-> isLoading])
         /\ UNCHANGED <<messages, input, isLoading, activeMode, pendingAttachment,
                        readers, inflight, flows, orchCalls, modelCalls>>
    ELSE /\ Len(orchCalls) < MaxSubmits
         /\ LET userMessage == Trim(input)
                currentAttachment == pendingAttachment
                id == Len(orchCalls) + 1
                orch == OrchestratorFor(currentAttachment, activeMode)
                in == OrchestratorInput(currentAttachment, userMessage)
            IN /\ input' = InputAfterSubmit
               /\ pendingAttachment' = PendingAfterSubmit
               /\ messages' = AppendMessage(messages,
                                  UserMessageOf(userMessage, currentAttachment))
               /\ isLoading' = TRUE
               /\ inflight' = inflight \cup
                      {[id |-> id, userMessage |-> userMessage,
                        currentAttachment |-> currentAttachment,
                        activeMode |-> activeMode]}
               /\ flows' = flows \cup {StartFlow(id, orch, in)}
               /\ orchCalls' = Append(orchCalls, [id |-> id, orch |-> orch, input |-> in])
         /\ UNCHANGED <<activeMode, readers, modelCalls, rejected>>

\* the send button: onClick={() => handleSubmit()}, when not disabled
ClickSend ==
    /\ ~SendDisabled
    /\ handleSubmit

\* handleKeyDown: Enter without Shift submits, any other key does nothing here
handleKeyDown(key, shiftKey) ==
    IF key = "Enter" /\ ~shiftKey
    THEN handleSubmit
    ELSE UNCHANGED vars

(***************************************************************************)
(* Buffer.from(data, 'base64') and Buffer.toString('utf-8').               *)
(***************************************************************************)
Base64Alphabet ==
    <<"A", "B", "C", "D", "E", "F", "G", "H", "I", "J", "K", "L", "M", "N", "O", "P",
      "Q", "R", "S", "T", "U", "V", "W", "X", "Y", "Z", "a", "b", "c", "d", "e", "f",
      "g", "h", "i", "j", "k", "l", "m", "n", "o", "p", "q", "r", "s", "t", "u", "v",
      "w", "x", "y", "z", "0", "1", "2", "3", "4", "5", "6", "7", "8", "9", "+", "/">>

Base64Value(c) == (CHOOSE i \in 1..64 : Base64Alphabet[i] = c) - 1

IsBase64Char(c) == \E i \in 1..64 : Base64Alphabet[i] = c

\* the sextets of the data: decoding stops at the first "=", other characters
\* outside the alphabet are skipped
RECURSIVE Sextets(_)
Sextets(data) ==
    IF data = <<>> \/ Head(data) = "=" THEN <<>>
    ELSE IF IsBase64Char(Head(data))
         THEN <<Base64Value(Head(data))>> \o Sextets(Tail(data))
         ELSE Sextets(Tail(data))

RECURSIVE BytesOf(_)
BytesOf(sx) ==
    IF Len(sx) < 2 THEN <<>>
    ELSE IF Len(sx) = 2
         THEN <<sx[1] * 4 + sx[2] \div 16>>
    ELSE IF Len(sx) = 3
         THEN <<sx[1] * 4 + sx[2] \div 16, (sx[2] % 16) * 16 + sx[3] \div 4>>
    ELSE <<sx[1] * 4 + sx[2] \div 16,
           (sx[2] % 16) * 16 + sx[3] \div 4,
           (sx[3] % 4) * 64 + sx[4]>> \o BytesOf(SubSeq(sx, 5, Len(sx)))

BufferFromBase64(data) == BytesOf(Sextets(data))

ReplacementChar == 65533

IsContinuation(b) == b >= 128 /\ b < 192

\* well-formed UTF-8 sequences decode to their code point, anything else to U+FFFD
RECURSIVE Utf8CodePoints(_)
Utf8CodePoints(b) ==
    IF b = <<>> THEN <<>>
    ELSE IF b[1] < 128
         THEN <<b[1]>> \o Utf8CodePoints(Tail(b))
    ELSE IF b[1] >= 194 /\ b[1] < 224 /\ Len(b) >= 2 /\ IsContinuation(b[2])
         THEN <<(b[1] - 192) * 64 + (b[2] - 128)>>
                  \o Utf8CodePoints(SubSeq(b, 3, Len(b)))
    ELSE IF /\ b[1] >= 224 /\ b[1] < 240 /\ Len(b) >= 3
            /\ IsContinuation(b[2]) /\ IsContinuation(b[3])
            /\ (b[1] = 224 => b[2] >= 160)
            /\ (b[1] = 237 => b[2] < 160)
         THEN <<(b[1] - 224) * 4096 + (b[2] - 128) * 64 + (b[3] - 128)>>
                  \o Utf8CodePoints(SubSeq(b, 4, Len(b)))
    ELSE IF /\ b[1] >= 240 /\ b[1] < 245 /\ Len(b) >= 4
            /\ IsContinuation(b[2]) /\ IsContinuation(b[3]) /\ IsContinuation(b[4])
            /\ (b[1] = 240 => b[2] >= 144)
            /\ (b[1] = 244 => b[2] < 144)
         THEN <<(b[1] - 240) * 262144 + (b[2] - 128) * 4096
                    + (b[3] - 128) * 64 + (b[4] - 128)>>
                  \o Utf8CodePoints(SubSeq(b, 5, Len(b)))
    ELSE <<ReplacementChar>> \o Utf8CodePoints(Tail(b))

\* the decoded string, one token per character (its code point in decimal)
BufferToStringUtf8(b) ==
    LET cps == Utf8CodePoints(b) IN [i \in 1..Len(cps) |-> ToString(cps[i])]

(***************************************************************************)
(* The document parsers (mammoth, xlsx) are libraries: what they return    *)
(* for a buffer is an input of the model.                                  *)
(***************************************************************************)
MammothOutcomes ==
    {[throws |-> TRUE, value |-> <<>>],
     [throws |-> FALSE, value |-> <<>>],
     [throws |-> FALSE, value |-> <<"Quarterly plan">>]}

Sheet(name, csv) == [name |-> name, csv |-> csv]

\* a workbook: its sheets in SheetNames order, each with its sheet_to_csv text
Workbooks ==
    {<<>>,
     <<Sheet("Jobs", <<"id,name", "\n", "1,load">>)>>,
     <<Sheet("Jobs", <<"id,name", "\n", "1,load">>), Sheet("Empty", <<>>)>>}

XlsxOutcomes ==
    {[throws |-> TRUE, workbook |-> <<>>]}
        \cup {[throws |-> FALSE, workbook |-> w] : w \in Workbooks}

\* faulty variant: the sheets are taken last to first
RECURSIVE SheetsTextReversed(_)
SheetsTextReversed(workbook) ==
    IF workbook = <<>> THEN <<>>
    ELSE SheetsTextReversed(Tail(workbook))
             \o <<"\n", "[Sheet: ", Head(workbook).name, "]", "\n">> \o Head(workbook).csv

\* workbook.SheetNames.forEach: text += `\n[Sheet: ${sheetName}]\n` + sheet_to_csv(sheet)
RECURSIVE SheetsText(_)
SheetsText(workbook) ==
    IF workbook = <<>> THEN <<>>
    ELSE <<"\n", "[Sheet: ", Head(workbook).name, "]", "\n">> \o Head(workbook).csv
             \o SheetsText(Tail(workbook))

ErrInvalidFileData == <<"Error: Invalid file data.">>
NoticeEmptyWord == <<"The Word document appears to be empty.">>
NoticeEmptySheet == <<"The spreadsheet appears to be empty.">>
NoticeLegacyDoc ==
    <<"Notice: This appears to be an older .doc format. Please convert it to .docx for full text extraction support.">>
ErrCouldNotExtract(mimeType) ==
    <<"Error: Could not extract text from this ">> \o mimeType \o <<" document.">>

\* faulty variant: the legacy .doc type is handed to the .docx parser too
IsWordBranchWithLegacy(mimeType) ==
    \/ mimeType = MimeDocx
    \/ Includes(mimeType, <<"word", "processingml">>)
    \/ Includes(mimeType, <<"officedocument", ".", "word">>)
    \/ Includes(mimeType, <<"ms", "word">>)

IsWordBranch(mimeType) ==
    \/ mimeType = MimeDocx
    \/ Includes(mimeType, <<"word", "processingml">>)
    \/ Includes(mimeType, <<"officedocument", ".", "word">>)

IsSheetBranch(mimeType) ==
    \/ mimeType = MimeXlsx
    \/ mimeType = MimeXls
    \/ Includes(mimeType, <<"spreadsheet", "ml">>)
    \/ Includes(mimeType, <<"excel">>)
    \/ mimeType = MimeCsv

\* faulty variant: the catch block returns no text
extractTextFromOfficeSilent(dataUri, mimeType, mammoth, xlsx) ==
    LET base64Data == At(Split(dataUri, ","), 1)
    IN IF ~Truthy(base64Data) THEN ErrInvalidFileData
       ELSE IF IsWordBranch(mimeType)
            THEN IF mammoth.throws THEN <<>>
                 ELSE IF Truthy(mammoth.value) THEN mammoth.value
                 ELSE NoticeEmptyWord
       ELSE IF IsSheetBranch(mimeType)
            THEN IF xlsx.throws THEN <<>>
                 ELSE IF Truthy(SheetsText(xlsx.workbook)) THEN SheetsText(xlsx.workbook)
                 ELSE NoticeEmptySheet
       ELSE IF mimeType = MimeDoc THEN NoticeLegacyDoc
       ELSE <<>>

\* extractTextFromOffice(dataUri, mimeType), given what the parsers do
extractTextFromOffice(dataUri, mimeType, mammoth, xlsx) ==
    LET base64Data == At(Split(dataUri, ","), 1)
    IN IF ~Truthy(base64Data) THEN ErrInvalidFileData
       ELSE IF IsWordBranch(mimeType)
            THEN IF mammoth.throws THEN ErrCouldNotExtract(mimeType)
                 ELSE IF Truthy(mammoth.value) THEN mammoth.value
                 ELSE NoticeEmptyWord
       ELSE IF IsSheetBranch(mimeType)
            THEN IF xlsx.throws THEN ErrCouldNotExtract(mimeType)
                 ELSE IF Truthy(SheetsText(xlsx.workbook)) THEN SheetsText(xlsx.workbook)
                 ELSE NoticeEmptySheet
       ELSE IF mimeType = MimeDoc THEN NoticeLegacyDoc
       ELSE <<>>

\* the parser extractTextFromOffice hands the buffer to, if any
ParserCalled(dataUri, mimeType) ==
    IF ~Truthy(At(Split(dataUri, ","), 1)) THEN "none"
    ELSE IF IsWordBranch(mimeType) THEN "mammoth"
    ELSE IF IsSheetBranch(mimeType) THEN "xlsx"
    ELSE "none"

\* whether that call threw into the catch block
ParserThrew(parser, mammoth, xlsx) ==
    \/ parser = "mammoth" /\ mammoth.throws
    \/ parser = "xlsx" /\ xlsx.throws

\* what the flow holds once the extraction is over
Extracted(text, parser, threw, workbook) ==
    [extractedText |-> text, parser |-> parser, threw |-> threw, workbook |-> workbook]

(***************************************************************************)
(* idmcAttachmentAnalysisFlow.                                             *)
(***************************************************************************)
\* const mimeType = input.attachmentType || ''
MimeTypeOf(in) == IF Truthy(in.attachmentType) THEN in.attachmentType ELSE <<>>

\* faulty variant: every application/ type is taken for media the model reads
IsImageOrAnyApplication(mimeType) ==
    StartsWith(mimeType, <<"image/">>) \/ StartsWith(mimeType, <<"application/">>)

IsImageOrPdf(mimeType) ==
    StartsWith(mimeType, <<"image/">>) \/ mimeType = MimePdf

IsOffice(mimeType) ==
    \/ Includes(mimeType, <<"word">>)
    \/ Includes(mimeType, <<"excel">>)
    \/ Includes(mimeType, <<"spreadsheet">>)
    \/ Includes(mimeType, <<"officedocument">>)
    \/ mimeType = MimeDoc

IsPlainText(mimeType) == mimeType = MimeTxt

\* Buffer.from(undefined, 'base64') throws a TypeError, outside any try
PlainTextThrows(in) == At(Split(in.attachmentDataUri, ","), 1) = Undefined

\* faulty variant: the bytes are decoded one character each (latin1)
PlainTextOfLatin1(in) ==
    LET b == BufferFromBase64(At(Split(in.attachmentDataUri, ","), 1))
    IN [i \in 1..Len(b) |-> ToString(b[i])]

PlainTextOf(in) ==
    BufferToStringUtf8(BufferFromBase64(At(Split(in.attachmentDataUri, ","), 1)))

\* faulty variants: the data URI is never forwarded; it is forwarded for every type
AttachmentPromptInputNoMedia(in, extractedText) ==
    [question |-> in.question,
     attachmentDataUri |-> Undefined,
     extractedText |-> IF Truthy(extractedText) THEN extractedText ELSE Undefined,
     isMediaSupported |-> IsImageOrPdf(MimeTypeOf(in))]

AttachmentPromptInputAlwaysMedia(in, extractedText) ==
    [question |-> in.question,
     attachmentDataUri |-> in.attachmentDataUri,
     extractedText |-> IF Truthy(extractedText) THEN extractedText ELSE Undefined,
     isMediaSupported |-> TRUE]

AttachmentPromptInput(in, extractedText) ==
    [question |-> in.question,
     attachmentDataUri |-> IF IsImageOrPdf(MimeTypeOf(in))
                           THEN in.attachmentDataUri ELSE Undefined,
     extractedText |-> IF Truthy(extractedText) THEN extractedText ELSE Undefined,
     isMediaSupported |-> IsImageOrPdf(MimeTypeOf(in))]

\* lines 117-139: the extraction, up to the await of the prompt
AttachmentExtract(f, mammoth, xlsx) ==
    /\ f.orch = "attachment" /\ f.pc = "extract"
    /\ LET mimeType == MimeTypeOf(f.input)
       IN flows' = (flows \ {f}) \cup
               {IF IsPlainText(mimeType)
                THEN IF PlainTextThrows(f.input)
                     THEN Reject(f, "TypeError")
                     ELSE Goto(f, "prompt",
                               Extracted(PlainTextOf(f.input), "none", FALSE, <<>>))
                ELSE IF IsOffice(mimeType)
                     THEN LET parser == ParserCalled(f.input.attachmentDataUri, mimeType)
                          IN Goto(f, "prompt",
                                  Extracted(extractTextFromOffice(f.input.attachmentDataUri,
                                                                  mimeType, mammoth, xlsx),
                                            parser,
                                            ParserThrew(parser, mammoth, xlsx),
                                            IF parser = "xlsx" /\ ~xlsx.throws
                                            THEN xlsx.workbook ELSE <<>>))
                     ELSE Goto(f, "prompt", Extracted(<<>>, "none", FALSE, <<>>))}
    /\ UNCHANGED <<messages, input, isLoading, activeMode, pendingAttachment, readers,
                   inflight, orchCalls, modelCalls, rejected>>

\* lines 141-148: attachmentPrompt(...) and return output!
AttachmentPrompt(f, out) ==
    /\ f.orch = "attachment" /\ f.pc = "prompt"
    /\ modelCalls' = Append(modelCalls,
           ModelCall(f, "idmcAttachmentAnalysisPrompt",
                     AttachmentPromptInput(f.input, f.local.extractedText)))
    /\ flows' = (flows \ {f}) \cup
           {IF out.ok
            THEN Resolve(f, [answer |-> out.answer, sourceLinks |-> Undefined])
            ELSE Reject(f, out.fault)}
    /\ UNCHANGED <<messages, input, isLoading, activeMode, pendingAttachment, readers,
             inflight, orchCalls, rejected>>

(***************************************************************************)
(* idmcQuestionAnsweringFlow (standard).                                   *)
(***************************************************************************)
StandardPrompt(f, out) ==
    /\ f.orch = "standard" /\ f.pc = "prompt"
    /\ modelCalls' = Append(modelCalls,
           ModelCall(f, "idmcQuestionAnsweringPrompt", [question |-> f.input.question]))
    /\ flows' = (flows \ {f}) \cup
           {IF out.ok
            THEN Resolve(f, [answer |-> out.answer, sourceLinks |-> Undefined])
            ELSE Reject(f, out.fault)}
    /\ UNCHANGED <<messages, input, isLoading, activeMode, pendingAttachment, readers,
             inflight, orchCalls, rejected>>

(***************************************************************************)
(* contextualIDMCAnswersFlow and its getDocumentation tool.                *)
(***************************************************************************)
MockDocumentation ==
    <<"Informatica Data Management Cloud (IDMC) is a comprehensive, cloud-native, end-to-end data management platform. ...">>

MockLinks ==
    <<<<"https://www.informatica.com/products/data-management-cloud.html">>,
      <<"https://docs.informatica.com/cloud-common-services/cloud-data-integration/current-version/getting-started/getting-started/informatica-intelligent-cloud-services--iics--overview.html">>>>

getDocumentationTool(query) ==
    [documentation |-> MockDocumentation, links |-> MockLinks]

\* Step 1: getDocumentationTool.run({ query: input.question })
ContextualTool(f) ==
    /\ f.orch = "contextual" /\ f.pc = "tool"
    /\ LET query == f.input.question
           tool == getDocumentationTool(query)
       IN flows' = (flows \ {f}) \cup
               {Goto(f, "prompt", [query |-> query,
                                   documentation |-> tool.documentation,
                                   links |-> tool.links])}
    /\ UNCHANGED <<messages, input, isLoading, activeMode, pendingAttachment, readers,
                   inflight, orchCalls, modelCalls, rejected>>

\* faulty variant: the links are returned only with an answer found in the context
ContextualPromptLinksIfAnswered(f, out) ==
    /\ f.orch = "contextual" /\ f.pc = "prompt"
    /\ modelCalls' = Append(modelCalls,
           ModelCall(f, "answerQuestionPrompt",
                     [question |-> f.input.question,
                      context |-> f.local.documentation]))
    /\ flows' = (flows \ {f}) \cup
           {IF out.ok
            THEN Resolve(f, [answer |-> out.answer,
                             sourceLinks |-> IF out.answer = RefusalAnswer
                                             THEN <<>> ELSE f.local.links])
            ELSE Reject(f, out.fault)}
    /\ UNCHANGED <<messages, input, isLoading, activeMode, pendingAttachment, readers,
             inflight, orchCalls, rejected>>

\* Step 2: answerQuestionPrompt({ question, context: documentation })
ContextualPrompt(f, out) ==
    /\ f.orch = "contextual" /\ f.pc = "prompt"
    /\ modelCalls' = Append(modelCalls,
           ModelCall(f, "answerQuestionPrompt",
                     [question |-> f.input.question,
                      context |-> f.local.documentation]))
    /\ flows' = (flows \ {f}) \cup
           {IF out.ok
            THEN Resolve(f, [answer |-> out.answer, sourceLinks |-> f.local.links])
            ELSE Reject(f, out.fault)}
    /\ UNCHANGED <<messages, input, isLoading, activeMode, pendingAttachment, readers,
             inflight, orchCalls, rejected>>

(***************************************************************************)
(* comprehensiveIDMCInsightsFlow: overview, detailed, synthesis, in turn.  *)
(***************************************************************************)
ComprehensiveOverview(f, out) ==
    /\ f.orch = "comprehensive" /\ f.pc = "overview"
    /\ modelCalls' = Append(modelCalls,
           ModelCall(f, "idmcGeneralOverviewPrompt", [question |-> f.input.question]))
    /\ flows' = (flows \ {f}) \cup
           {IF out.ok
            THEN Goto(f, "detailed", [overview |-> out.answer, detailed |-> <<>>])
            ELSE Reject(f, out.fault)}
    /\ UNCHANGED <<messages, input, isLoading, activeMode, pendingAttachment, readers,
             inflight, orchCalls, rejected>>

ComprehensiveDetailed(f, out) ==
    /\ f.orch = "comprehensive" /\ f.pc = "detailed"
    /\ modelCalls' = Append(modelCalls,
           ModelCall(f, "idmcDetailedInsightsPrompt", [question |-> f.input.question]))
    /\ flows' = (flows \ {f}) \cup
           {IF out.ok
            THEN Goto(f, "synthesis",
                      [overview |-> f.local.overview, detailed |-> out.answer])
            ELSE Reject(f, out.fault)}
    /\ UNCHANGED <<messages, input, isLoading, activeMode, pendingAttachment, readers,
             inflight, orchCalls, rejected>>

ComprehensiveSynthesis(f, out) ==
    /\ f.orch = "comprehensive" /\ f.pc = "synthesis"
    /\ modelCalls' = Append(modelCalls,
           ModelCall(f, "idmcSynthesisPrompt",
                     [question |-> f.input.question,
                      overview |-> f.local.overview,
                      detailed |-> f.local.detailed]))
    /\ flows' = (flows \ {f}) \cup
           {IF out.ok
            THEN Resolve(f, [answer |-> out.answer, sourceLinks |-> Undefined])
            ELSE Reject(f, out.fault)}
    /\ UNCHANGED <<messages, input, isLoading, activeMode, pendingAttachment, readers,
             inflight, orchCalls, rejected>>

(***************************************************************************)
(* handleSubmit after its await: the try's tail, the catch, the finally.   *)
(***************************************************************************)
Apology ==
    <<"I encountered an error processing your request. Please try again or check your connection.">>

FlowOf(r) == CHOOSE f \in flows : f.id = r.id

\* sources is assigned in the contextual branch only
SourcesOf(r, result) ==
    IF OrchestratorFor(r.currentAttachment, r.activeMode) = "contextual"
    THEN result.sourceLinks
    ELSE Undefined

\* faulty variants: the label is read from the state at the time the request
\* ends (the mode then selected; the attachment then staged)
ModeLabelCurrentMode(r) ==
    IF r.currentAttachment # Null THEN "attachment-analysis" ELSE activeMode

ModeLabelLivePending(r) ==
    IF pendingAttachment # Null THEN "attachment-analysis" ELSE r.activeMode

\* faulty variant: the label is the selected mode, attachment or not
ModeLabelIgnoresAttachment(r) == r.activeMode

ModeLabel(r) ==
    IF r.currentAttachment # Null THEN "attachment-analysis" ELSE r.activeMode

AssistantMessage(r, result) ==
    Message("ai", result.answer, SourcesOf(r, result), ModeLabel(r), Null)

\* faulty variant: the fault detail is shown
ApologyWithDetail(error) ==
    Message("ai", Apology \o <<error>>, Undefined, NoMode, Null)

\* catch (error) { ... }: the message does not use error
ApologyMessage(error) == Message("ai", Apology, Undefined, NoMode, Null)

\* faulty variant: no finally, the flag stays as it is
LoadingKeptAfterSettle == isLoading

\* finally { setIsLoading(false); }
LoadingAfterSettle == FALSE

\* the awaited promise resolved: append the answer, then finally
SubmitResolved(r) ==
    /\ r \in inflight
    /\ FlowOf(r).pc = "resolved"
    /\ messages' = AppendMessage(messages, AssistantMessage(r, FlowOf(r).result))
    /\ isLoading' = LoadingAfterSettle
    /\ inflight' = inflight \ {r}
    /\ flows' = flows \ {FlowOf(r)}
    /\ UNCHANGED <<input, activeMode, pendingAttachment, readers, orchCalls,
                   modelCalls, rejected>>

\* the awaited promise rejected: catch, then finally
SubmitRejected(r) ==
    /\ r \in inflight
    /\ FlowOf(r).pc = "rejected"
    /\ messages' = AppendMessage(messages, ApologyMessage(FlowOf(r).fault))
    /\ isLoading' = LoadingAfterSettle
    /\ inflight' = inflight \ {r}
    /\ flows' = flows \ {FlowOf(r)}
    /\ UNCHANGED <<input, activeMode, pendingAttachment, readers, orchCalls,
                   modelCalls, rejected>>

(***************************************************************************)
(* The browser session.                                                    *)
(***************************************************************************)
Keys == {"Enter", "a"}

\* what the model service does in the browser session
SessionOutcomes == {o \in ModelOutcomes : o.ok => o.answer = <<"model answer">>}

Next ==
    \/ \E text \in TypedTexts : SetInput(text)
    \/ \E mode \in Modes : SetActiveMode(mode)
    \/ \E file \in Files : handleFileChange(file)
    \/ \E i \in 1..Len(readers) : onloadend(i)
    \/ removeAttachment
    \/ ClickSend
    \/ \E key \in Keys, shiftKey \in BOOLEAN : handleKeyDown(key, shiftKey)
    \/ \E f \in flows, out \in SessionOutcomes : StandardPrompt(f, out)
    \/ \E f \in flows : ContextualTool(f)
    \/ \E f \in flows, out \in SessionOutcomes : ContextualPrompt(f, out)
    \/ \E f \in flows, out \in SessionOutcomes : ComprehensiveOverview(f, out)
    \/ \E f \in flows, out \in SessionOutcomes : ComprehensiveDetailed(f, out)
    \/ \E f \in flows, out \in SessionOutcomes : ComprehensiveSynthesis(f, out)
    \/ \E f \in flows, mammoth \in MammothOutcomes, xlsx \in XlsxOutcomes :
          AttachmentExtract(f, mammoth, xlsx)
    \/ \E f \in flows, out \in SessionOutcomes : AttachmentPrompt(f, out)
    \/ \E r \in inflight : SubmitResolved(r)
    \/ \E r \in inflight : SubmitRejected(r)

Spec == Init /\ [][Next]_vars

(***************************************************************************)
(* The server actions called on their own: one flow invocation on any      *)
(* input of the declared schema.                                           *)
(***************************************************************************)
Questions == {<<"q">>, DefaultQuestion}

DataUrisOf(type) ==
    {DataUriNoComma,
     DataUriOf(type, <<>>),
     DataUriOf(type, PayloadHi),
     DataUriOf(type, PayloadCsv),
     DataUriOf(type, PayloadEAcute),
     DataUriOf(type, PayloadBadByte)}

AttachmentInputs ==
    {[question |-> q, attachmentDataUri |-> u, attachmentType |-> t] :
        q \in Questions, t \in MimeTypes, u \in UNION {DataUrisOf(m) : m \in MimeTypes}}
    \cup {[question |-> q, attachmentDataUri |-> u, attachmentType |-> Undefined] :
        q \in Questions, u \in DataUrisOf(MimeNone)}

QuestionInputs ==
    {[question |-> q, attachmentDataUri |-> Undefined, attachmentType |-> Undefined] :
        q \in Questions}

FlowInit ==
    /\ messages = InitialMessages
    /\ input = <<>>
    /\ isLoading = FALSE
    /\ activeMode = "comprehensive"
    /\ pendingAttachment = Null
    /\ readers = <<>>
    /\ inflight = {}
    /\ \/ \E in \in AttachmentInputs : flows = {StartFlow(1, "attachment", in)}
       \/ \E in \in QuestionInputs, orch \in Modes : flows = {StartFlow(1, orch, in)}
    /\ orchCalls = <<>>
    /\ modelCalls = <<>>
    /\ rejected = <<>>

FlowNext ==
    \/ \E f \in flows, out \in ModelOutcomes : StandardPrompt(f, out)
    \/ \E f \in flows : ContextualTool(f)
    \/ \E f \in flows, out \in ModelOutcomes : ContextualPrompt(f, out)
    \/ \E f \in flows, out \in ModelOutcomes : ComprehensiveOverview(f, out)
    \/ \E f \in flows, out \in ModelOutcomes : ComprehensiveDetailed(f, out)
    \/ \E f \in flows, out \in ModelOutcomes : ComprehensiveSynthesis(f, out)
    \/ \E f \in flows, mammoth \in MammothOutcomes, xlsx \in XlsxOutcomes :
          AttachmentExtract(f, mammoth, xlsx)
    \/ \E f \in flows, out \in ModelOutcomes : AttachmentPrompt(f, out)

FlowSpec == FlowInit /\ [][FlowNext]_vars

(***************************************************************************)
(* Fairness: a flow that can step does (the server runs it, and the model  *)
(* service answers or fails), and a settled promise resumes handleSubmit.  *)
(***************************************************************************)
FlowProgress ==
    \E f \in flows :
        \/ \E out \in SessionOutcomes :
              \/ StandardPrompt(f, out)
              \/ ContextualPrompt(f, out)
              \/ ComprehensiveOverview(f, out)
              \/ ComprehensiveDetailed(f, out)
              \/ ComprehensiveSynthesis(f, out)
              \/ AttachmentPrompt(f, out)
        \/ ContextualTool(f)
        \/ \E mammoth \in MammothOutcomes, xlsx \in XlsxOutcomes :
              AttachmentExtract(f, mammoth, xlsx)

Resume == \E r \in inflight : SubmitResolved(r) \/ SubmitRejected(r)

LiveSpec == Spec /\ WF_vars(FlowProgress) /\ WF_vars(Resume)

(***************************************************************************)
(* Properties.                                                             *)
(***************************************************************************)
CountRole(msgs, role) == Cardinality({i \in 1..Len(msgs) : msgs[i].role = role})

LastOf(msgs) == msgs[Len(msgs)]

NonBlank(text) == \E i \in 1..Len(text) : text[i] \notin Whitespace

\* a step in which handleSubmit got past its guard
SubmitAccepted ==
    /\ Len(messages') = Len(messages) + 1
    /\ LastOf(messages').role = "user"

\* the flow invocations a step starts
StartedFlows == {f \in flows' : \A g \in flows : g.id # f.id}

\* a step in which the continuation r of handleSubmit ran to its end
Settles(r) == r \in inflight /\ r \notin inflight'

LabelOf(orch) == IF orch = "attachment" THEN "attachment-analysis" ELSE orch

\* C1: at most one orchestrator request is in flight at any time; a submit made
\* while one is pending starts no orchestrator and appends no message, so every
\* user message has exactly one orchestrator call and, once idle, one assistant
\* message.
C1_OneRequestInFlight ==
    /\ Cardinality(inflight) <= 1
    /\ Cardinality(flows) <= 1
    /\ isLoading <=> inflight # {}
    /\ CountRole(messages, "user") = Len(orchCalls)
    /\ CountRole(messages, "ai") = 1 + Len(orchCalls) - Cardinality(inflight)

\* a submit was refused while a request was pending, and that request has ended:
\* one user message, one assistant message after the greeting
C1_Witness ==
    /\ \E i \in 1..Len(rejected) : rejected[i].loading
    /\ ~isLoading
    /\ Len(orchCalls) = 1
    /\ Len(messages) = 3

\* C2: a submit takes effect only when the text is non-blank after trimming or an
\* attachment is staged, and no request is pending; a submit in any other state
\* changes nothing and invokes no orchestrator.
C2_SubmitOnlyWhenEnabled ==
    [][/\ (SubmitAccepted \/ orchCalls' # orchCalls \/ StartedFlows # {})
            => ((NonBlank(input) \/ pendingAttachment # Null) /\ ~isLoading)
       /\ rejected' # rejected
            => UNCHANGED <<messages, input, pendingAttachment, isLoading,
                           activeMode, inflight, flows, orchCalls, modelCalls>>]_vars

\* a blank submit was refused while idle, and a later submit was accepted
C2_Witness ==
    /\ \E i \in 1..Len(rejected) : ~rejected[i].loading
    /\ Len(orchCalls) >= 1

\* C3: every accepted submit invokes exactly one orchestrator: the attachment one
\* when an attachment was staged, whatever the mode, else the one of the mode.
C3_ExactlyOneOrchestrator ==
    [][/\ SubmitAccepted =>
            /\ Len(orchCalls') = Len(orchCalls) + 1
            /\ SubSeq(orchCalls', 1, Len(orchCalls)) = orchCalls
            /\ LastOf(orchCalls').orch =
                   IF pendingAttachment # Null THEN "attachment" ELSE activeMode
            /\ Cardinality(StartedFlows) = 1
            /\ \A f \in StartedFlows : f.orch = LastOf(orchCalls').orch
       /\ (orchCalls' # orchCalls \/ StartedFlows # {}) => SubmitAccepted]_vars

\* two accepted submits: one with an attachment, one without
C3_Witness ==
    /\ Len(orchCalls) = 2
    /\ orchCalls[1].orch = "attachment"
    /\ orchCalls[2].orch = "standard"

\* C4: on success the controller appends exactly one assistant message with the
\* returned answer, the returned source links and the label of the orchestrator
\* that ran ("attachment-analysis" when an attachment was staged, whatever the
\* mode), and is idle again.
C4_SuccessAppendsAnswer ==
    [][\A r \in inflight :
          (Settles(r) /\ FlowOf(r).pc = "resolved") =>
              /\ messages' = Append(messages,
                     [role |-> "ai",
                      content |-> FlowOf(r).result.answer,
                      sources |-> FlowOf(r).result.sourceLinks,
                      mode |-> LabelOf(orchCalls[r.id].orch),
                      attachment |-> Null])
              /\ r.currentAttachment # Null =>
                     /\ orchCalls[r.id].orch = "attachment"
                     /\ LastOf(messages').mode = "attachment-analysis"
              /\ ~isLoading']_vars

\* the one request so far had an attachment, was answered, and the mode is Contextual
C4_Witness ==
    /\ ~isLoading
    /\ Len(orchCalls) = 1
    /\ orchCalls[1].orch = "attachment"
    /\ activeMode = "contextual"
    /\ Len(messages) = 3
    /\ messages[3].mode = "attachment-analysis"

\* C5: an accepted submit appends one user message, empties the text box, clears
\* the staged attachment and sets the loading flag, before the orchestrator's
\* result is known; the mode and the earlier messages stay as they were.
C5_SubmitEffects ==
    [][SubmitAccepted =>
          /\ SubSeq(messages', 1, Len(messages)) = messages
          /\ input' = <<>>
          /\ pendingAttachment' = Null
          /\ isLoading'
          /\ activeMode' = activeMode
          /\ \A f \in StartedFlows : ~Settled(f)]_vars

\* a submit with a staged attachment was accepted and its request is pending
C5_Witness ==
    /\ isLoading
    /\ Len(messages) = 2
    /\ messages[2].role = "user"
    /\ messages[2].attachment # Null
    /\ input = <<>>
    /\ pendingAttachment = Null

\* C6: when the orchestrator faults the controller appends exactly one assistant
\* message, the fixed apology with no fault detail, no links and no label, and is
\* idle again; the earlier messages and the mode stay as they were.
C6_FaultAppendsApology ==
    [][\A r \in inflight :
          (Settles(r) /\ FlowOf(r).pc = "rejected") =>
              /\ messages' = Append(messages,
                     [role |-> "ai", content |-> Apology, sources |-> Undefined,
                      mode |-> NoMode, attachment |-> Null])
              /\ ~isLoading'
              /\ activeMode' = activeMode]_vars

\* two requests faulted: both got the same apology
C6_Witness ==
    /\ ~isLoading
    /\ Len(messages) = 5
    /\ messages[3].content = Apology
    /\ messages[5].content = Apology
    /\ orchCalls[1].orch # orchCalls[2].orch

\* C7: every accepted submit is followed by the controller being idle again with
\* one assistant message for it; a continuation ends only by appending that
\* message, and a flow is dropped only once settled (nothing cancels a request).
C7_EventuallyIdle ==
    /\ isLoading ~> ~isLoading
    /\ [](~isLoading => CountRole(messages, "ai") = Len(orchCalls) + 1)
    /\ [][\A r \in inflight :
             Settles(r) =>
                 /\ Settled(FlowOf(r))
                 /\ Len(messages') = Len(messages) + 1
                 /\ LastOf(messages').role = "ai"]_vars
    /\ [][\A f \in flows :
             (\A g \in flows' : g.id # f.id) => Settled(f)]_vars

\* every submit the bound allows was made and answered
C7_Witness ==
    /\ ~isLoading
    /\ Len(orchCalls) = MaxSubmits
    /\ CountRole(messages, "ai") = MaxSubmits + 1

\* C8: while an attachment is staged no step changes the active mode.
C8_ModeFrozenWhileStaged ==
    [][pendingAttachment # Null => activeMode' = activeMode]_vars

\* an attachment is staged after the mode was changed from its default
C8_Witness ==
    /\ pendingAttachment # Null
    /\ activeMode = "standard"

\* C9: the transcript is append-only: in every step the transcript before it is a
\* prefix of the transcript after it.
C9_AppendOnly ==
    [][/\ Len(messages') >= Len(messages)
       /\ SubSeq(messages', 1, Len(messages)) = messages]_vars

\* two requests were made and ended
C9_Witness ==
    /\ Len(messages) = 5
    /\ ~isLoading

\* the first comma of a data URI is missing, or nothing follows it
HasNoDataSegment(uri) ==
    \/ \A i \in 1..Len(uri) : uri[i] # ","
    \/ \E i \in 1..Len(uri) :
          /\ uri[i] = ","
          /\ \A j \in 1..(i - 1) : uri[j] # ","
          /\ i = Len(uri)

ErrorNotices == {ErrInvalidFileData} \cup {ErrCouldNotExtract(t) : t \in MimeTypes}

\* C10: for a data URI with no encoded data segment the attachment flow does not
\* fault because of the payload and, for every type it extracts text from (office
\* and plain text), goes on to the model with an error notice as extracted text.
C10_MalformedPayloadNotice ==
    \A f \in flows :
        (f.orch = "attachment" /\ HasNoDataSegment(f.input.attachmentDataUri)) =>
            /\ f.pc = "rejected" => f.fault \in ModelFaults
            /\ (/\ f.pc = "prompt"
                /\ \/ IsOffice(MimeTypeOf(f.input))
                   \/ IsPlainText(MimeTypeOf(f.input)))
                   => f.local.extractedText \in ErrorNotices

(***************************************************************************)
(* Properties of the flows, on one invocation each.                        *)
(***************************************************************************)
\* the inputs of the model invocations flow f has made, in order
PromptInputsOf(f) ==
    LET idx == {i \in 1..Len(modelCalls) : modelCalls[i].flow = f.id}
    IN {modelCalls[i].input : i \in idx}

AttachmentFlows == {f \in flows : f.orch = "attachment"}

\* the extraction step of f is over
Extracting(f) == f.pc = "extract"

TypeOf(f) == IF f.input.attachmentType = Undefined THEN <<>> ELSE f.input.attachmentType

IsMediaType(type) == StartsWith(type, <<"image/">>) \/ type = MimePdf

MediaPresent(in) == in.isMediaSupported /\ in.attachmentDataUri # Undefined
MediaAbsent(in) == ~in.isMediaSupported /\ in.attachmentDataUri = Undefined
TextPresent(in) == in.extractedText # Undefined /\ in.extractedText # <<>>
TextAbsent(in) == in.extractedText = Undefined

\* C11: for an image/* or application/pdf attachment no extraction is attempted
\* (no parser is called, nothing is decoded); the model invocation receives the
\* raw data URI unchanged with the media flag set and no extracted text.
C11_MediaPassThrough ==
    \A f \in AttachmentFlows :
        IsMediaType(TypeOf(f)) =>
            /\ f.pc # "rejected" \/ f.fault \in ModelFaults
            /\ ~Extracting(f) =>
                  /\ f.local.parser = "none"
                  /\ ~f.local.threw
                  /\ f.local.extractedText = <<>>
            /\ \A in \in PromptInputsOf(f) :
                  /\ in.attachmentDataUri = f.input.attachmentDataUri
                  /\ in.isMediaSupported
                  /\ in.extractedText = Undefined
                  /\ in.question = f.input.question

\* a picture with a non-empty payload went to the model as it came
C11_Witness ==
    \E f \in AttachmentFlows :
        /\ TypeOf(f) = MimePng
        /\ f.input.attachmentDataUri = DataUriOf(MimePng, PayloadHi)
        /\ f.pc = "resolved"
        /\ \E in \in PromptInputsOf(f) : in.attachmentDataUri = f.input.attachmentDataUri

\* the types the file picker declares, by what the flow is to do with them
DeclaredMediaTypes == {MimePng, MimePdf}
DeclaredOfficeTypes == {MimeDocx, MimeXlsx, MimeXls, MimeDoc}
DeclaredTextTypes == DeclaredOfficeTypes \cup {MimeTxt}

\* the text of a plain-text attachment, when its data URI has a data segment
DecodedTextOf(f) == PlainTextOf(f.input)

HasDataSegment(uri) ==
    \E i \in 1..(Len(uri) - 1) :
        /\ uri[i] = ","
        /\ \A j \in 1..(i - 1) : uri[j] # ","
        /\ uri[i + 1] # ","

\* C13: a text/csv attachment is extracted like a spreadsheet: the prompt gets
\* a sheet-name header line followed by the rows, not an empty extracted text.
C13_CsvExtractedAsSheet ==
    \A f \in AttachmentFlows :
        (TypeOf(f) = MimeCsv /\ HasDataSegment(f.input.attachmentDataUri)) =>
            \A in \in PromptInputsOf(f) :
                /\ TextPresent(in)
                /\ \E i \in 1..Len(in.extractedText) : in.extractedText[i] = "[Sheet: "

\* the flows whose extractor got a workbook from the spreadsheet parser
ParsedWorkbookFlows ==
    {f \in AttachmentFlows :
        ~Extracting(f) /\ f.pc # "rejected" /\ f.local.parser = "xlsx" /\ ~f.local.threw}

HeaderOf(sheet) == <<"\n", "[Sheet: ", sheet.name, "]", "\n">>

HeaderLines(text) == {i \in 1..Len(text) : text[i] = "[Sheet: "}

\* where the block of the k-th sheet ends in the concatenation of the blocks
RECURSIVE BlockEnd(_, _)
BlockEnd(w, k) ==
    IF k = 0 THEN 0 ELSE BlockEnd(w, k - 1) + Len(HeaderOf(w[k])) + Len(w[k].csv)

\* text is block 1, ..., block N of workbook w, nothing else
IsBlocksOf(text, w) ==
    /\ Len(text) = BlockEnd(w, Len(w))
    /\ Cardinality(HeaderLines(text)) = Len(w)
    /\ \A k \in 1..Len(w) :
          LET from == BlockEnd(w, k - 1)
              hdr == Len(HeaderOf(w[k]))
          IN /\ SubSeq(text, from + 1, from + hdr) = HeaderOf(w[k])
             /\ SubSeq(text, from + hdr + 1, BlockEnd(w, k)) = w[k].csv

\* C14 as stated: for a workbook of N sheets the extracted text is the
\* concatenation, in workbook order, of N blocks (header line, then the rows as
\* comma-separated text), with exactly N header lines.
C14_SheetBlocks ==
    \A f \in ParsedWorkbookFlows : IsBlocksOf(f.local.extractedText, f.local.workbook)

\* C14, amended: for a workbook of N >= 1 sheets the extracted text is the
\* concatenation, in workbook order, of N blocks (header line, then the rows),
\* with exactly N header lines; for a workbook that lists no sheet it is the
\* fixed "spreadsheet appears to be empty" notice, which has no header line.
C14_SheetBlocksOrEmptyNotice ==
    \A f \in ParsedWorkbookFlows :
        /\ Cardinality(HeaderLines(f.local.extractedText)) = Len(f.local.workbook)
        /\ IF f.local.workbook = <<>>
           THEN f.local.extractedText = NoticeEmptySheet
           ELSE IsBlocksOf(f.local.extractedText, f.local.workbook)

\* a workbook of two sheets was extracted and its text handed to the model
C14_Witness ==
    \E f \in ParsedWorkbookFlows :
        /\ Len(f.local.workbook) = 2
        /\ f.local.workbook[1].name # f.local.workbook[2].name
        /\ \E in \in PromptInputsOf(f) : in.extractedText = f.local.extractedText

\* the number of model invocations flow f has made
CallsOf(f) == Cardinality({i \in 1..Len(modelCalls) : modelCalls[i].flow = f.id})

\* f has not faulted, or has because the model invocation did
NoFaultButTheModels(f) == f.pc = "rejected" => f.fault \in ModelFaults

\* f invokes the model once: never twice, and once by the time it has settled
InvokesModelOnce(f) ==
    /\ CallsOf(f) <= 1
    /\ Settled(f) => CallsOf(f) = 1
    /\ f.pc \in {"extract", "prompt"} => CallsOf(f) = 0

ParserFaultFlows ==
    {f \in AttachmentFlows : ~Extracting(f) /\ f.local # NoLocal /\ f.local.threw}

\* C16: when a document parser throws during the extraction of an office
\* attachment the fault is absorbed: the extractor returns an error notice, the
\* flow makes exactly one model invocation, with that notice as extracted text,
\* and the request does not fault because of the extraction.
C16_ParserFaultAbsorbed ==
    /\ \A f \in AttachmentFlows :
          TypeOf(f) \in DeclaredOfficeTypes => NoFaultButTheModels(f)
    /\ \A f \in ParserFaultFlows :
          /\ f.local.parser \in {"mammoth", "xlsx"}
          /\ f.local.extractedText = ErrCouldNotExtract(TypeOf(f))
          /\ InvokesModelOnce(f)
          /\ \A in \in PromptInputsOf(f) :
                in.extractedText = f.local.extractedText /\ MediaAbsent(in)

\* the .docx parser threw and the request was answered all the same
C16_Witness ==
    \E f \in ParserFaultFlows :
        /\ f.local.parser = "mammoth"
        /\ f.pc = "resolved"
        /\ CallsOf(f) = 1

\* the catalogue's types that match none of the image, PDF, word-processing,
\* spreadsheet or plain-text rules: a presentation, and no type at all
UnrecognizedTypes == {MimePptx, MimeNone}

InvokesModelOnceAfterTool(f) ==
    /\ CallsOf(f) <= 1
    /\ f.pc \in {"tool", "prompt"} => CallsOf(f) = 0
    /\ Settled(f) => CallsOf(f) = 1

ContextualFlows == {f \in flows : f.orch = "contextual"}

\* the reference list of the mock knowledge tool, as the source has it
FixedReferenceList ==
    <<<<"https://www.informatica.com/products/data-management-cloud.html">>,
      <<"https://docs.informatica.com/cloud-common-services/cloud-data-integration/current-version/getting-started/getting-started/informatica-intelligent-cloud-services--iics--overview.html">>>>

\* C18: Contextual mode first calls the mock knowledge tool with the question,
\* then the model with the tool's text as its only context; every successful
\* result carries as sourceLinks exactly the tool's fixed ordered list, whatever
\* the question and the answer, the refusal included.
C18_ContextualFixedLinks ==
    \A f \in ContextualFlows :
        /\ f.pc = "tool" => CallsOf(f) = 0
        /\ f.pc # "tool" =>
              /\ f.local.query = f.input.question
              /\ f.local.links = FixedReferenceList
        /\ InvokesModelOnceAfterTool(f)
        /\ \A in \in PromptInputsOf(f) :
              /\ DOMAIN in = {"question", "context"}
              /\ in.question = f.input.question
              /\ in.context = f.local.documentation
        /\ f.pc = "resolved" => f.result.sourceLinks = FixedReferenceList

\* the model refused to answer and the links came back all the same
C18_Witness ==
    \E f \in ContextualFlows :
        /\ f.pc = "resolved"
        /\ f.result.answer = RefusalAnswer
        /\ f.result.sourceLinks = FixedReferenceList
        /\ CallsOf(f) = 1

ComprehensiveFlows == {f \in flows : f.orch = "comprehensive"}

\* the calls flow f has made of one prompt
CallsOfPrompt(f, prompt) ==
    {i \in 1..Len(modelCalls) : modelCalls[i].flow = f.id /\ modelCalls[i].prompt = prompt}

\* the synthesis call comes after one completed fast-path call and one completed
\* deep-path call, and gets their two answers
SynthesisAfterBoth(f) ==
    \A s \in CallsOfPrompt(f, "idmcSynthesisPrompt") :
        /\ \E o \in CallsOfPrompt(f, "idmcGeneralOverviewPrompt") : o < s
        /\ \E d \in CallsOfPrompt(f, "idmcDetailedInsightsPrompt") : d < s
        /\ modelCalls[s].input.overview = f.local.overview
        /\ modelCalls[s].input.detailed = f.local.detailed
        /\ modelCalls[s].input.question = f.input.question

\* a flow that faulted carries no result, and if it faulted in one of its first
\* two calls it has made no synthesis call
NoSynthesisAfterFault(f) ==
    f.pc = "rejected" =>
        /\ f.result = NoResult
        /\ f.fault \in ModelFaults
        /\ CallsOf(f) < 3 => CallsOfPrompt(f, "idmcSynthesisPrompt") = {}

SynthesisInputsNonEmpty(f) ==
    \A s \in CallsOfPrompt(f, "idmcSynthesisPrompt") :
        modelCalls[s].input.overview # <<>> /\ modelCalls[s].input.detailed # <<>>

\* C19: in Comprehensive mode the synthesis call is issued only after both the
\* fast-path and the deep-path calls have completed, never with an empty
\* fast-path or deep-path answer; if either upstream call faults there is no
\* synthesis call and the request faults with no partial result.
C19_SynthesisNeedsBothAnswers ==
    \A f \in ComprehensiveFlows :
        /\ SynthesisAfterBoth(f)
        /\ NoSynthesisAfterFault(f)
        /\ SynthesisInputsNonEmpty(f)

\* a step in which flow f invokes the model and the invocation comes back with out
ModelStep(f, out) ==
    \/ StandardPrompt(f, out)
    \/ ContextualPrompt(f, out)
    \/ ComprehensiveOverview(f, out)
    \/ ComprehensiveDetailed(f, out)
    \/ ComprehensiveSynthesis(f, out)
    \/ AttachmentPrompt(f, out)

\* no flow has invoked the same prompt twice
EachPromptAtMostOnce ==
    \A i, j \in 1..Len(modelCalls) :
        (/\ modelCalls[i].flow = modelCalls[j].flow
         /\ modelCalls[i].prompt = modelCalls[j].prompt) => i = j

\* the calls a step adds to the log
NewCalls == {modelCalls'[i] : i \in (Len(modelCalls) + 1)..Len(modelCalls')}

\* C20: no orchestrator retries or falls back: within one request each model
\* step is invoked at most once; a fault of any of them rejects the flow with that
\* fault and no result, a rejected flow makes no further call, and it leaves only
\* through the controller's catch, which appends the apology.
C20_NoRetryNoFallback ==
    /\ []EachPromptAtMostOnce
    /\ [][\A f \in flows :
            /\ \A out \in ModelOutcomes :
                  (~out.ok /\ ModelStep(f, out)) =>
                      \E g \in flows' :
                          /\ g.id = f.id
                          /\ g.pc = "rejected"
                          /\ g.fault = out.fault
                          /\ g.result = NoResult
            /\ f.pc = "rejected" =>
                  /\ \A c \in NewCalls : c.flow # f.id
                  /\ \/ f \in flows'
                     \/ \E r \in inflight :
                           /\ r.id = f.id
                           /\ Settles(r)
                           /\ Len(messages') = Len(messages) + 1
                           /\ LastOf(messages').content = Apology
                           /\ ~isLoading']_vars

\* a Comprehensive request ran its three calls, the last one faulted, and the
\* user got the apology
C20_Witness ==
    /\ ~isLoading
    /\ Len(orchCalls) = 1
    /\ orchCalls[1].orch = "comprehensive"
    /\ Len(modelCalls) = 3
    /\ modelCalls[3].prompt = "idmcSynthesisPrompt"
    /\ LastOf(messages).content = Apology

\* the data segment of a data URI: what follows its first comma
DataSegmentOf(uri) ==
    LET k == CHOOSE i \in 1..Len(uri) : uri[i] = "," /\ \A j \in 1..(i - 1) : uri[j] # ","
    IN SubSeq(uri, k + 1, Len(uri))

\* the catalogue's payloads: their bytes, and their UTF-8 decoding as code points
\* (U+FFFD, 65533, for a byte that is no UTF-8)
KnownPayloads ==
    {[data |-> PayloadHi, bytes |-> <<72, 105>>, text |-> <<72, 105>>],
     [data |-> PayloadCsv, bytes |-> <<97, 44, 98, 10>>, text |-> <<97, 44, 98, 10>>],
     [data |-> PayloadEAcute, bytes |-> <<195, 169>>, text |-> <<233>>],
     [data |-> PayloadBadByte, bytes |-> <<255>>, text |-> <<65533>>]}

KnownPayloadOf(uri) == CHOOSE p \in KnownPayloads : p.data = DataSegmentOf(uri)

\* a text of the given code points, one token per character
TextOfCodePoints(cps) == [i \in 1..Len(cps) |-> ToString(cps[i])]

\* UTF-8 encoding of code points below U+0800
RECURSIVE Utf8Encode(_)
Utf8Encode(cps) ==
    IF cps = <<>> THEN <<>>
    ELSE IF Head(cps) < 128 THEN <<Head(cps)>> \o Utf8Encode(Tail(cps))
    ELSE <<192 + (Head(cps) \div 64), 128 + (Head(cps) % 64)>> \o Utf8Encode(Tail(cps))

\* the code points of a text, from its tokens
CodePointOfToken(token) ==
    CHOOSE n \in (0..2047) \cup {ReplacementChar} : ToString(n) = token

CodePointsOfText(text) == [i \in 1..Len(text) |-> CodePointOfToken(text[i])]

PlainTextFlows ==
    {f \in AttachmentFlows :
        TypeOf(f) = MimeTxt /\ HasDataSegment(f.input.attachmentDataUri)}

\* C21: for a text/plain attachment with a well-formed payload the extracted
\* text passed to the model is the UTF-8 decoding of the payload bytes exactly
\* (encoding it again gives the bytes back when they are UTF-8), and no inline
\* media is sent.
C21_PlainTextDecodedVerbatim ==
    \A f \in PlainTextFlows :
        LET known == KnownPayloadOf(f.input.attachmentDataUri)
        IN /\ NoFaultButTheModels(f)
           /\ InvokesModelOnce(f)
           /\ ~Extracting(f) => f.local.parser = "none"
           /\ \A in \in PromptInputsOf(f) :
                 /\ MediaAbsent(in)
                 /\ in.extractedText = TextOfCodePoints(known.text)
                 /\ known.text # <<ReplacementChar>> =>
                       Utf8Encode(CodePointsOfText(in.extractedText)) = known.bytes
                 /\ in.question = f.input.question

\* a two-byte character reached the model as one character
C21_Witness ==
    \E f \in PlainTextFlows :
        /\ f.input.attachmentDataUri = DataUriOf(MimeTxt, PayloadEAcute)
        /\ f.pc = "resolved"
        /\ \E in \in PromptInputsOf(f) : in.extractedText = <<"233">>

(***************************************************************************)
(* Properties of the browser session under interleaved user actions.       *)
(***************************************************************************)
\* the request r is still waiting for its orchestrator
Submitting(r) == r \in inflight /\ r \in inflight'

\* the label of the assistant message a step appends
AppendedLabel == LastOf(messages').mode

\* C22: the mode label of every successful assistant message names the
\* orchestrator that was invoked for that request; a mode change made while the
\* request is Submitting changes neither that orchestrator nor the label, only
\* what later submits invoke.
C22_LabelNamesInvokedOrchestrator ==
    [][/\ \A r \in inflight :
            /\ FlowOf(r).orch = orchCalls[r.id].orch
            /\ (Settles(r) /\ FlowOf(r).pc = "resolved") =>
                  /\ Len(messages') = Len(messages) + 1
                  /\ AppendedLabel = LabelOf(orchCalls[r.id].orch)
                  /\ AppendedLabel = LabelOf(FlowOf(r).orch)
            /\ (Submitting(r) /\ activeMode' # activeMode) =>
                  /\ UNCHANGED <<inflight, flows, orchCalls, modelCalls, messages>>
       /\ (SubmitAccepted /\ pendingAttachment = Null) =>
             orchCalls'[Len(orchCalls')].orch = activeMode]_vars

\* a Comprehensive request has resolved and is about to be shown, and the mode
\* was switched to Standard while it ran
C22_Witness ==
    \E r \in inflight :
        /\ isLoading
        /\ r.currentAttachment = Null
        /\ r.activeMode = "comprehensive"
        /\ activeMode = "standard"
        /\ FlowOf(r).orch = "comprehensive"
        /\ FlowOf(r).pc = "resolved"

RoleAt(i) == IF i % 2 = 0 THEN "user" ELSE "ai"

\* C23: the transcript starts with the assistant greeting and then alternates
\* user, assistant; while Idle its last message is an assistant message and
\* there is one assistant message more than user messages; while Submitting its
\* last message is a user message and the two counts are equal.
C23_TranscriptAlternates ==
    /\ Len(messages) >= 1
    /\ messages[1].role = "ai"
    /\ messages[1].content = Greeting
    /\ \A i \in 1..Len(messages) : messages[i].role = RoleAt(i)
    /\ IF isLoading
       THEN /\ LastOf(messages).role = "user"
            /\ CountRole(messages, "ai") = CountRole(messages, "user")
       ELSE /\ LastOf(messages).role = "ai"
            /\ CountRole(messages, "ai") = CountRole(messages, "user") + 1

\* a second request is Submitting after a first full exchange
C23_Witness ==
    /\ isLoading
    /\ Len(messages) = 4
    /\ messages[3].role = "ai"
    /\ messages[4].role = "user"

\* C24: an attachment that becomes staged while a request is Submitting is not
\* consumed by that request: its orchestrator and label are those of the
\* attachment snapshot taken at submit, and the newly staged attachment is still
\* pending when the request resolves or faults.
C24_LateAttachmentKept ==
    [][\A r \in inflight :
          /\ (Submitting(r) /\ pendingAttachment' # pendingAttachment) =>
                /\ UNCHANGED <<inflight, flows, orchCalls, modelCalls, messages, isLoading>>
                /\ FlowOf(r).input.attachmentDataUri = orchCalls[r.id].input.attachmentDataUri
          /\ orchCalls[r.id].orch = "attachment" <=> r.currentAttachment # Null
          /\ r.currentAttachment # Null =>
                orchCalls[r.id].input.attachmentDataUri = r.currentAttachment.dataUri
          /\ Settles(r) =>
                /\ pendingAttachment' = pendingAttachment
                /\ FlowOf(r).pc = "resolved" =>
                      (AppendedLabel = "attachment-analysis" <=> r.currentAttachment # Null)]_vars

\* a request submitted without attachment has settled and is about to be shown,
\* and a file read has staged an attachment in the meantime
C24_Witness ==
    \E r \in inflight :
        /\ isLoading
        /\ pendingAttachment # Null
        /\ r.currentAttachment = Null
        /\ Settled(FlowOf(r))

TenMiB == 10 * 1024 * 1024

\* C25: selecting a file of more than 10 MiB never stages it and leaves the
\* pending attachment (one already staged too), the transcript, the mode and the
\* loading flag as they were; a file of exactly 10 MiB is read and, once the
\* read completes, staged.
C25_OversizeNeverStaged ==
    /\ [](/\ pendingAttachment # Null => pendingAttachment.file.size <= TenMiB
          /\ \A i \in 1..Len(readers) : readers[i].size <= TenMiB)
    /\ [][/\ \A file \in Files :
                handleFileChange(file) =>
                    /\ UNCHANGED <<pendingAttachment, messages, activeMode, isLoading, input>>
                    /\ IF file.size > TenMiB
                       THEN UNCHANGED readers
                       ELSE readers' = Append(readers, file)
          /\ \A i \in 1..Len(readers) :
                onloadend(i) =>
                    /\ pendingAttachment' # Null
                    /\ pendingAttachment'.file = readers[i]
                    /\ pendingAttachment'.dataUri = readers[i].dataUri]_vars

\* the file of exactly 10 MiB is staged
C25_Witness ==
    /\ pendingAttachment # Null
    /\ pendingAttachment.file.size = TenMiB
    /\ readers = <<>>

====
